---- MODULE Spec2Model ----
(***************************************************************************)
(* Piper TTS editor extension: the synthesis pipeline orchestrator         *)
(* (readText / stopPlayback and the two child processes), the voice asset  *)
(* downloader (downloadFile), the voice management commands (selectVoice,  *)
(* removeVoice, downloadVoice), the readAloud command, the platform table  *)
(* with the playback command, the catalog parser and the symbolic-link     *)
(* repair of the Linux binaries (fixSymlinks), modelled from the source.   *)
(***************************************************************************)
EXTENDS Integers, Sequences, FiniteSets, TLC

(***************************************************************************)
(* Bounds of the model.                                                    *)
(***************************************************************************)
\* number of readText calls a behaviour may issue
MaxCalls == 2
\* number of downloadFile invocations of one download: the first request and the
\* re-issued requests of its redirect chain
MaxHops == 2
\* number of chunks in a response body
MaxBody == 2
\* number of lines of a document given to the catalog parser
MaxLines == 4

Calls == 1..MaxCalls
Hops == 1..MaxHops

(***************************************************************************)
(* Values.                                                                 *)
(***************************************************************************)
\* the built-in voice identifier used when the setting is unset
DefaultVoice == "en_US-hfc_female-medium"
OtherVoice == "en_GB-alan-low"
Unset == ""
\* texts handed to readText: the empty string is refused
Texts == {"", "hello"}
\* os.platform() values of the session model: one with a row, one without
SessionPlatforms == {"linux", "freebsd"}
SupportedPlatforms == {"win32", "darwin", "linux"}
\* os.platform() and os.arch() values of the platform table model
Platforms == {"win32", "darwin", "linux", "freebsd"}
Archs == {"x64", "arm64", "arm", "ia32"}
\* the installed voices of the model
Voices == {DefaultVoice, OtherVoice}
\* undefined / null
Null == "null"
\* the base name of an .onnx file that is not of the form code-name-size
CustomVoice == "custom"

\* a child process, as the extension sees it:
\*   none      not spawned
\*   failed    spawn() returned a handle whose spawn failed; 'error' is queued
\*   errored   'error' was emitted, 'close' (negative code) is still to come
\*   running   alive, no signal sent
\*   signalled alive, kill() has sent the signal (.killed is true)
\*   exit0 / exit1 / exitNull / exitErr   'close' delivered with that code
ProcStates ==
  {"none", "failed", "errored", "running", "signalled",
   "exit0", "exit1", "exitNull", "exitErr"}
Alive(st) == st \in {"running", "signalled"}
Exited(st) == st \in {"exit0", "exit1", "exitNull", "exitErr"}

VARIABLES
  platform,       \* os.platform()
  exeExists,      \* the synthesis executable is on disk
  models,         \* voice identifiers whose .onnx file is on disk
  config,         \* the persisted 'piper-tts.voice' setting
  piperProcess,   \* module-level handle: 0 is undefined, c the piper of call c
  playerProcess,  \* module-level handle: 0 is undefined, c the player of call c
  nCalls,         \* readText calls issued so far
  call,           \* per readText call: phase, promise, pipeline
  proc,           \* per readText call: the state of its two processes
  lastOp,         \* the API operation or event handled last
  dest,           \* the file at the destination path of the download
  staleLocked,    \* the file found at the destination cannot be unlinked
  hop,            \* per downloadFile invocation: request, write stream, promise
  pendingUnlinks, \* fs.unlink(destination) calls issued and not yet carried out
  arch,           \* os.arch()
  configs,        \* voice identifiers whose .onnx.json file is on disk
  catalog,        \* voices/voices.json: "ok", "missing" or "malformed"
  rm,             \* the removeVoice command: position, pick list, outcome
  sel,            \* the selectVoice command: position, pick list, outcome
  dv,             \* the downloadVoice command: position, picks, outcome
  lines,          \* parse-voices.js: the lines of VOICES.md
  lineNo,         \* parse-voices.js: lines handled so far (the loop index i)
  currentLanguage,\* parse-voices.js: key of the language being filled, or Null
  currentVoice,   \* parse-voices.js: key of the voice being filled, or Null
  voices,         \* parse-voices.js: the mapping built so far, a set of entries
  picked,         \* the entry picked from the mapping and its voice identifier
  binDir,         \* the piper binary directory on disk: its name and its entries
  fix             \* fixSymlinks: position in the list, attempts, promise

sessionVars ==
  <<platform, arch, exeExists, models, config, piperProcess, playerProcess,
    nCalls, call, proc, lastOp>>

downloadVars == <<dest, staleLocked, hop, pendingUnlinks>>

voiceVars == <<configs, catalog, rm, sel, dv>>

parserVars == <<lines, lineNo, currentLanguage, currentVoice, voices, picked>>

setupVars == <<binDir, fix>>

vars == <<sessionVars, downloadVars, voiceVars, parserVars, setupVars>>

(***************************************************************************)
(* stopCurrentPlayback                                                     *)
(***************************************************************************)
\* ChildProcess.kill(): signals a live process; no effect on one that has no handle
Kill(st) == IF st = "running" THEN "signalled" ELSE st
\* ChildProcess.killed
Killed(st) == st \in {"signalled", "exitNull"}

NoProcs == [piper |-> "none", player |-> "none"]

StopKillAll(pp, pl, pr) ==
  [piperProcess  |-> 0,
   playerProcess |-> 0,
   proc |-> [c \in DOMAIN pr |->
               [piper |-> Kill(pr[c].piper), player |-> Kill(pr[c].player)]]]

\* kills the processes the two module-level handles refer to, and clears the handles
StopCurrentPlayback(pp, pl, pr) ==
  LET hitPiper  == pp # 0 /\ ~Killed(pr[pp].piper)
      p1        == IF hitPiper THEN [pr EXCEPT ![pp].piper = Kill(@)] ELSE pr
      hitPlayer == pl # 0 /\ ~Killed(p1[pl].player)
      p2        == IF hitPlayer THEN [p1 EXCEPT ![pl].player = Kill(@)] ELSE p1
  IN [piperProcess  |-> IF hitPiper THEN 0 ELSE pp,
      playerProcess |-> IF hitPlayer THEN 0 ELSE pl,
      proc          |-> p2]

(***************************************************************************)
(* Path resolution                                                         *)
(***************************************************************************)
\* getPlaybackCommand throws on a platform without a row
PlatformSupported(p) == p \in SupportedPlatforms

\* the result of getPiperPath on a platform without a row: it throws
Unsupported == "unsupported"

GetPiperPathStrict(p, a) ==
  CASE p = "win32" /\ a = "x64"    -> "piper/windows_amd64"
    [] p = "darwin" /\ a = "arm64" -> "piper/macos_aarch64"
    [] p = "darwin" /\ a = "x64"   -> "piper/macos_x64"
    [] p = "linux" /\ a = "arm64"  -> "piper/linux_aarch64"
    [] p = "linux" /\ a = "arm"    -> "piper/linux_armv7l"
    [] p = "linux" /\ a = "x64"    -> "piper/linux_x86_64"
    [] OTHER                       -> Unsupported

\* getPiperPath: the directory of the synthesis executable
GetPiperPath(p, a) ==
  CASE p = "win32"  -> "piper/windows_amd64"
    [] p = "darwin" -> IF a = "arm64" THEN "piper/macos_aarch64" ELSE "piper/macos_x64"
    [] p = "linux"  -> IF a = "arm64" THEN "piper/linux_aarch64"
                       ELSE IF a = "arm" THEN "piper/linux_armv7l"
                       ELSE "piper/linux_x86_64"
    [] OTHER        -> Unsupported

\* the command and the argument list of the playback process
NoCommand == [command |-> Null, args |-> <<>>]

\* getPlaybackCommand: it throws on a platform without a row
GetPlaybackCommand(p) ==
  CASE p = "win32"  -> [command |-> "sox/play.exe",
                        args |-> <<"-t", "raw", "-r", "22050", "-b", "16", "-e", "signed",
                                   "-c", "1", "-L", "-", "remix", "1">>]
    [] p = "darwin" -> [command |-> "afplay", args |-> <<"-">>]
    [] p = "linux"  -> [command |-> "aplay",
                        args |-> <<"-r", "22050", "-f", "S16_LE", "-t", "raw", "-">>]
    [] OTHER        -> NoCommand

GetVoiceAlwaysDefault(cfg) == DefaultVoice

\* getVoicePath: the setting, or the built-in identifier when it is unset
GetVoice(cfg) == IF cfg = Unset THEN DefaultVoice ELSE cfg

ResolveSkipVoiceCheck(p, a, exe, cfg, mods) ==
  IF GetPiperPath(p, a) = Unsupported THEN "UnsupportedPlatform"
  ELSE IF ~exe THEN "ExecutableNotFound"
  ELSE IF ~PlatformSupported(p) THEN "UnsupportedPlatform"
  ELSE "ok"

\* the checks of readText between the delay and the first spawn
Resolve(p, a, exe, cfg, mods) ==
  IF GetPiperPath(p, a) = Unsupported THEN "UnsupportedPlatform"
  ELSE IF ~exe THEN "ExecutableNotFound"
  ELSE IF GetVoice(cfg) \notin mods THEN "VoiceFileNotFound"
  ELSE IF ~PlatformSupported(p) THEN "UnsupportedPlatform"
  ELSE "ok"

(***************************************************************************)
(* The pipeline of one readText call                                       *)
(***************************************************************************)
NoPipeline ==
  [piperMade |-> FALSE, playerMade |-> FALSE, piped |-> FALSE,
   stdin |-> "", stdinEnded |-> FALSE, log |-> <<>>]

SpawnPiper(s)   == [s EXCEPT !.piperMade = TRUE, !.log = Append(@, "spawnPiper")]
SpawnPlayer(s)  == [s EXCEPT !.playerMade = TRUE, !.log = Append(@, "spawnPlayer")]
PipeStdout(s)   == [s EXCEPT !.piped = s.piperMade /\ s.playerMade,
                             !.log = Append(@, "pipe")]
WriteText(s, t) == [s EXCEPT !.stdin = t, !.log = Append(@, "write")]
EndStdin(s)     == [s EXCEPT !.stdinEnded = TRUE, !.log = Append(@, "end")]

BuildPipelineWriteFirst(text) ==
  PipeStdout(SpawnPlayer(EndStdin(WriteText(SpawnPiper(NoPipeline), text))))

\* spawn piper, spawn the player, pipe, write the text, end the input
BuildPipeline(text) ==
  EndStdin(WriteText(PipeStdout(SpawnPlayer(SpawnPiper(NoPipeline))), text))

(***************************************************************************)
(* The promise of one readText call                                        *)
(***************************************************************************)
NewCall ==
  [phase |-> "new", text |-> "", promise |-> "none", reason |-> "none",
   piperDir |-> Null, voice |-> Null, playback |-> NoCommand, pipe |-> NoPipeline,
   via |-> "api", errors |-> 0, infos |-> 0]

\* the catch of the readAloud command around await api.readText: one error message
ReadAloudCatch(c) == [c EXCEPT !.errors = @ + 1]

\* the rejection of the promise of api.readText reaches its caller: a client of
\* the API, or the readAloud command, whose catch shows the error
Rejected(c, reason) ==
  LET r == [c EXCEPT !.promise = "rejected", !.reason = reason]
  IN IF c.via = "command" THEN ReadAloudCatch(r) ELSE r

\* resolve()/reject() of a promise: only the first one settles it
Settle(c, outcome, reason) ==
  IF c.promise = "pending"
  THEN IF outcome = "rejected" THEN Rejected(c, reason)
       ELSE [c EXCEPT !.promise = outcome, !.reason = reason]
  ELSE c

\* piper.on('close'): rejects unless the code is 0 or null
PiperCloseOutcome(code) ==
  IF code # "exit0" /\ code # "exitNull" THEN "rejected" ELSE "resolved"

\* player.on('close'): resolves only on code 0
PlayerCloseOutcome(code) ==
  IF code = "exit0" THEN "resolved" ELSE "rejected"

(***************************************************************************)
(* Initial state                                                           *)
(***************************************************************************)
InitSession ==
  /\ platform \in SessionPlatforms
  /\ arch = "x64"
  /\ exeExists \in BOOLEAN
  /\ models \in {{}, {DefaultVoice}, {OtherVoice}}
  /\ config \in {Unset, OtherVoice}
  /\ piperProcess = 0
  /\ playerProcess = 0
  /\ nCalls = 0
  /\ call = [c \in Calls |-> NewCall]
  /\ proc = [c \in Calls |-> NoProcs]
  /\ lastOp = "activate"

\* a failed spawn emits 'error' from process.nextTick, ahead of every other event
TickPending ==
  \E c \in Calls : proc[c].piper = "failed" \/ proc[c].player = "failed"

(***************************************************************************)
(* api.readText, up to its delay                                           *)
(***************************************************************************)
ReadText(text) ==
  /\ ~TickPending
  /\ nCalls < MaxCalls
  /\ LET c == nCalls + 1 IN
       /\ nCalls' = c
       /\ lastOp' = "readText"
       /\ IF text = ""
          THEN /\ call' = [call EXCEPT ![c] =
                   [NewCall EXCEPT !.phase = "thrown", !.promise = "rejected",
                                   !.reason = "NoText"]]
               /\ UNCHANGED <<piperProcess, playerProcess, proc>>
          ELSE LET r == StopCurrentPlayback(piperProcess, playerProcess, proc) IN
               /\ piperProcess' = r.piperProcess
               /\ playerProcess' = r.playerProcess
               /\ proc' = r.proc
               /\ call' = [call EXCEPT ![c] =
                   [NewCall EXCEPT !.phase = "delay", !.text = text,
                                   !.promise = "pending"]]
  /\ UNCHANGED <<downloadVars, voiceVars, parserVars, setupVars, platform, arch, exeExists, models, config>>

(***************************************************************************)
(* the readAloud command, up to the delay of api.readText                  *)
(***************************************************************************)
\* with an empty selection it shows an information message and returns;
\* otherwise it awaits api.readText(text)
ReadAloud(text) ==
  /\ ~TickPending
  /\ nCalls < MaxCalls
  /\ LET c == nCalls + 1 IN
       /\ nCalls' = c
       /\ lastOp' = "readAloud"
       /\ IF text = ""
          THEN /\ call' = [call EXCEPT ![c] =
                   [NewCall EXCEPT !.phase = "unselected", !.via = "command",
                                   !.infos = 1]]
               /\ UNCHANGED <<piperProcess, playerProcess, proc>>
          ELSE LET r == StopCurrentPlayback(piperProcess, playerProcess, proc) IN
               /\ piperProcess' = r.piperProcess
               /\ playerProcess' = r.playerProcess
               /\ proc' = r.proc
               /\ call' = [call EXCEPT ![c] =
                   [NewCall EXCEPT !.phase = "delay", !.text = text,
                                   !.promise = "pending", !.via = "command"]]
  /\ UNCHANGED <<downloadVars, voiceVars, parserVars, setupVars, platform, arch, exeExists, models, config>>

\* timers of equal delay expire in the order they were set
OldestDelayed(c) ==
  /\ call[c].phase = "delay"
  /\ \A d \in Calls : d < c => call[d].phase # "delay"

(***************************************************************************)
(* api.readText, after its delay: resolve, verify, spawn, pipe, write      *)
(***************************************************************************)
ReadTextResume(c) ==
  /\ ~TickPending
  /\ OldestDelayed(c)
  /\ lastOp' = "timer"
  /\ LET res   == Resolve(platform, arch, exeExists, config, models)
         dir   == GetPiperPath(platform, arch)
         voice == IF dir = Unsupported THEN Null ELSE GetVoice(config)
     IN
       IF res # "ok"
       THEN /\ call' = [call EXCEPT ![c] =
                 [Settle(@, "rejected", res) EXCEPT !.phase = "thrown",
                                                    !.piperDir = dir,
                                                    !.voice = voice]]
            /\ UNCHANGED <<piperProcess, playerProcess, proc>>
       ELSE \E piperOk \in BOOLEAN, playerOk \in BOOLEAN :
            /\ proc' = [proc EXCEPT ![c] =
                 [piper  |-> IF piperOk THEN "running" ELSE "failed",
                  player |-> IF playerOk THEN "running" ELSE "failed"]]
            /\ piperProcess' = c
            /\ playerProcess' = c
            /\ call' = [call EXCEPT ![c] =
                 [call[c] EXCEPT !.phase = "spawned",
                                  !.piperDir = dir,
                                  !.voice = voice,
                                  !.playback = GetPlaybackCommand(platform),
                                  !.pipe = BuildPipeline(call[c].text)]]
  /\ UNCHANGED <<downloadVars, voiceVars, parserVars, setupVars, platform, arch, exeExists, models, config, nCalls>>

(***************************************************************************)
(* Process events                                                          *)
(***************************************************************************)
\* piper.on('error') / player.on('error')
PiperError(c) ==
  /\ proc[c].piper = "failed"
  /\ proc' = [proc EXCEPT ![c].piper = "errored"]
  /\ call' = [call EXCEPT ![c] = Settle(@, "rejected", "ProcessSpawnError")]
  /\ lastOp' = "error"
  /\ UNCHANGED <<downloadVars, voiceVars, parserVars, setupVars, platform, arch, exeExists, models, config, piperProcess, playerProcess, nCalls>>

PlayerError(c) ==
  /\ proc[c].player = "failed"
  /\ proc' = [proc EXCEPT ![c].player = "errored"]
  /\ call' = [call EXCEPT ![c] = Settle(@, "rejected", "ProcessSpawnError")]
  /\ lastOp' = "error"
  /\ UNCHANGED <<downloadVars, voiceVars, parserVars, setupVars, platform, arch, exeExists, models, config, piperProcess, playerProcess, nCalls>>

CloseHandlesBoth(pp, pl, who) == [piperProcess |-> 0, playerProcess |-> 0]

\* the handle assignments of the two 'close' handlers: each clears the handle
\* of its own kind
CloseHandles(pp, pl, who) ==
  IF who = "piper" THEN [piperProcess |-> 0, playerProcess |-> pl]
  ELSE [piperProcess |-> pp, playerProcess |-> 0]

\* the exit codes a process in state st can close with
CloseCodes(st) ==
  CASE st = "running"   -> {"exit0", "exit1"}
    [] st = "signalled" -> {"exitNull"}
    [] st = "errored"   -> {"exitErr"}
    [] OTHER            -> {}

\* piper.on('close')
PiperClose(c) ==
  /\ ~TickPending
  /\ \E code \in CloseCodes(proc[c].piper) :
       /\ proc' = [proc EXCEPT ![c].piper = code]
       /\ piperProcess' = CloseHandles(piperProcess, playerProcess, "piper").piperProcess
       /\ playerProcess' = CloseHandles(piperProcess, playerProcess, "piper").playerProcess
       /\ call' = [call EXCEPT ![c] =
            Settle(@, PiperCloseOutcome(code),
                   IF PiperCloseOutcome(code) = "rejected" THEN "ProcessExitError" ELSE "none")]
  /\ lastOp' = "close"
  /\ UNCHANGED <<downloadVars, voiceVars, parserVars, setupVars, platform, arch, exeExists, models, config, nCalls>>

\* the player reads piper's output to its end before it can finish playing
PlayerCloseCodes(c) ==
  IF Alive(proc[c].piper) \/ proc[c].piper = "failed"
  THEN CloseCodes(proc[c].player) \ {"exit0"}
  ELSE CloseCodes(proc[c].player)

\* player.on('close')
PlayerClose(c) ==
  /\ ~TickPending
  /\ \E code \in PlayerCloseCodes(c) :
       /\ proc' = [proc EXCEPT ![c].player = code]
       /\ piperProcess' = CloseHandles(piperProcess, playerProcess, "player").piperProcess
       /\ playerProcess' = CloseHandles(piperProcess, playerProcess, "player").playerProcess
       /\ call' = [call EXCEPT ![c] =
            Settle(@, PlayerCloseOutcome(code),
                   IF PlayerCloseOutcome(code) = "rejected" THEN "ProcessExitError" ELSE "none")]
  /\ lastOp' = "close"
  /\ UNCHANGED <<downloadVars, voiceVars, parserVars, setupVars, platform, arch, exeExists, models, config, nCalls>>

(***************************************************************************)
(* api.stopPlayback                                                        *)
(***************************************************************************)
StopPlayback ==
  /\ ~TickPending
  /\ LET r == StopCurrentPlayback(piperProcess, playerProcess, proc) IN
       /\ piperProcess' = r.piperProcess
       /\ playerProcess' = r.playerProcess
       /\ proc' = r.proc
  /\ lastOp' = "stopPlayback"
  /\ UNCHANGED <<downloadVars, voiceVars, parserVars, setupVars, platform, arch, exeExists, models, config, nCalls, call>>

(***************************************************************************)
(* downloadFile                                                            *)
(*                                                                         *)
(* One download is a chain of downloadFile invocations ("hops"): the first *)
(* request and one more per followed redirect.  The write stream's open    *)
(* completes before any network event; a request raises no error once its  *)
(* response has been handled as a redirect or a failure.                   *)
(***************************************************************************)
NoFile == [kind |-> "none", h |-> 0]
StaleFile == [kind |-> "stale", h |-> 0]
HopFile(h) == [kind |-> "hop", h |-> h]

\* the body of the response to hop h, n chunks long
Body(h, n) == [i \in 1..n |-> h]
StaleContent == <<0>>

Statuses == {200, 301, 302, 404}

NoReason == [kind |-> "none", status |-> 0]
DownloadFailed(status) == [kind |-> "DownloadFailed", status |-> status]
OtherError(kind) == [kind |-> kind, status |-> 0]

NewHop ==
  [state |-> "idle", found |-> "none", stream |-> "none", written |-> <<>>, status |-> 0,
   bodyLen |-> 0, remaining |-> 0, promise |-> "none", reason |-> NoReason]

\* fs.unlinkSync / fs.unlink of the destination: fails on a locked file
Unlink(d, locked) == IF d.kind = "stale" /\ locked THEN d ELSE NoFile

OpenDestinationAppend(d, locked, h, openOk) ==
  IF openOk
  THEN [dest |-> IF d.kind = "none" THEN HopFile(h) ELSE d, stream |-> "open"]
  ELSE [dest |-> d, stream |-> "doomed"]

\* lines 47-56: remove a file found at the destination, then open the write
\* stream with flags 'wx', which creates the file or fails if one is there
OpenDestination(d, locked, h, openOk) ==
  LET d1 == IF d.kind # "none" THEN Unlink(d, locked) ELSE d
  IN IF d1.kind = "none" /\ openOk
     THEN [dest |-> HopFile(h), stream |-> "open"]
     ELSE [dest |-> d1, stream |-> "doomed"]

ClassifyNoStatusCheck(status, hasLocation) ==
  IF (status = 302 \/ status = 301) /\ hasLocation THEN "redirect" ELSE "ok"

\* lines 59-76: what the response callback does with a status
Classify(status, hasLocation) ==
  IF (status = 302 \/ status = 301) /\ hasLocation THEN "redirect"
  ELSE IF status # 200 THEN "fail"
  ELSE "ok"

\* file.close()
CloseStream(st) == IF st = "open" THEN "closed" ELSE st

SettleOwnOnly(hp, h, outcome, reason) ==
  [hp EXCEPT ![h] = IF @.promise = "pending"
                    THEN [@ EXCEPT !.promise = outcome, !.reason = reason]
                    ELSE @]

\* a settled hop settles, through .then(resolve).catch(reject), every pending
\* promise of the hops that redirected to it
SettleChain(hp, h, outcome, reason) ==
  [j \in DOMAIN hp |->
     IF j <= h /\ hp[j].promise = "pending"
     THEN [hp[j] EXCEPT !.promise = outcome, !.reason = reason]
     ELSE hp[j]]

\* the content of the file at the destination path
Content(d, hp) ==
  IF d.kind = "stale" THEN StaleContent
  ELSE IF d.kind = "hop" THEN hp[d.h].written
  ELSE <<>>

VerifyNoSizeCheck(d, hp) ==
  IF d.kind = "none" THEN [outcome |-> "rejected", reason |-> OtherError("VerifyError")]
  ELSE [outcome |-> "resolved", reason |-> NoReason]

\* lines 86-96: stat the destination after the stream finished
Verify(d, hp) ==
  IF d.kind = "none" THEN [outcome |-> "rejected", reason |-> OtherError("VerifyError")]
  ELSE IF Len(Content(d, hp)) = 0
       THEN [outcome |-> "rejected", reason |-> OtherError("EmptyDownload")]
       ELSE [outcome |-> "resolved", reason |-> NoReason]

InitDownload ==
  /\ dest \in {NoFile, StaleFile}
  /\ staleLocked \in BOOLEAN
  /\ hop = [h \in Hops |-> NewHop]
  /\ pendingUnlinks = 0

\* the 'error' of a stream whose open failed is emitted ahead of network events
DoomedPending == \E h \in Hops : hop[h].stream = "doomed"

\* a removal issued by a handler is a local file operation: like the open of a
\* stream it is carried out ahead of the next network event
UnlinkPending == pendingUnlinks > 0

\* downloadFile(url, destination), up to protocol.get
StartHop(hp, d, locked, h, openOk) ==
  LET o == OpenDestination(d, locked, h, openOk)
  IN [dest |-> o.dest,
      hop  |-> [hp EXCEPT ![h] = [NewHop EXCEPT !.state = "requested",
                                                !.found = d.kind,
                                                !.stream = o.stream,
                                                !.promise = "pending"]]]

DownloadFile ==
  /\ hop[1].state = "idle"
  /\ \E openOk \in BOOLEAN :
       LET r == StartHop(hop, dest, staleLocked, 1, openOk) IN
         /\ dest' = r.dest
         /\ hop' = r.hop
  /\ UNCHANGED <<sessionVars, voiceVars, parserVars, setupVars, staleLocked, pendingUnlinks>>

\* the response callback of protocol.get
Response(h) ==
  /\ ~DoomedPending
  /\ ~UnlinkPending
  /\ hop[h].state = "requested"
  /\ \E status \in Statuses, hasLocation \in BOOLEAN, n \in 0..MaxBody, openOk \in BOOLEAN :
       LET got == [hop EXCEPT ![h].status = status, ![h].bodyLen = n]
           cls == Classify(status, hasLocation)
       IN CASE cls = "redirect" ->
                 /\ h < MaxHops
                 /\ LET closed == [got EXCEPT ![h].state = "redirected",
                                              ![h].stream = CloseStream(@)]
                        r == StartHop(closed, dest, staleLocked, h + 1, openOk)
                    IN /\ dest' = r.dest
                       /\ hop' = r.hop
                 /\ UNCHANGED pendingUnlinks
            [] cls = "fail" ->
                 /\ hop' = SettleChain([got EXCEPT ![h].state = "failed",
                                                   ![h].stream = CloseStream(@)],
                                       h, "rejected", DownloadFailed(status))
                 /\ pendingUnlinks' = pendingUnlinks + 1
                 /\ UNCHANGED dest
            [] cls = "ok" ->
                 /\ hop' = [got EXCEPT ![h].state = "piping", ![h].remaining = n]
                 /\ UNCHANGED <<dest, pendingUnlinks>>
  /\ UNCHANGED <<sessionVars, voiceVars, parserVars, setupVars, staleLocked>>

\* request.on('error'): the connection fails before or while the body arrives
RequestError(h) ==
  /\ ~DoomedPending
  /\ ~UnlinkPending
  /\ hop[h].state \in {"requested", "piping"}
  /\ hop' = SettleChain([hop EXCEPT ![h].state = "failed",
                                    ![h].stream = CloseStream(@)],
                        h, "rejected", OtherError("RequestError"))
  /\ pendingUnlinks' = pendingUnlinks + 1
  /\ UNCHANGED <<sessionVars, voiceVars, parserVars, setupVars, dest, staleLocked>>

\* response.pipe(file): one chunk of the body reaches the stream's file
WriteChunk(h) ==
  /\ ~DoomedPending
  /\ hop[h].state = "piping"
  /\ hop[h].stream = "open"
  /\ hop[h].remaining > 0
  /\ hop' = [hop EXCEPT ![h].written = Append(@, h), ![h].remaining = @ - 1]
  /\ UNCHANGED <<sessionVars, voiceVars, parserVars, setupVars, dest, staleLocked, pendingUnlinks>>

\* file.on('finish')
Finish(h) ==
  /\ ~DoomedPending
  /\ hop[h].state = "piping"
  /\ hop[h].stream = "open"
  /\ hop[h].remaining = 0
  /\ LET v == Verify(dest, hop) IN
       hop' = SettleChain([hop EXCEPT ![h].state = "finished", ![h].stream = "closed"],
                          h, v.outcome, v.reason)
  /\ UNCHANGED <<sessionVars, voiceVars, parserVars, setupVars, dest, staleLocked, pendingUnlinks>>

\* file.on('error'): the open failed, or a write failed while the body is piped
FileError(h) ==
  /\ \/ hop[h].stream = "doomed"
     \/ hop[h].stream = "open" /\ hop[h].state = "piping"
  /\ hop' = SettleChain([hop EXCEPT ![h].stream = "errored"],
                        h, "rejected", OtherError("WriteError"))
  /\ pendingUnlinks' = pendingUnlinks + 1
  /\ UNCHANGED <<sessionVars, voiceVars, parserVars, setupVars, dest, staleLocked>>

\* an fs.unlink(destination, () => {}) issued by a handler is carried out
UnlinkDone ==
  /\ pendingUnlinks > 0
  /\ dest' = Unlink(dest, staleLocked)
  /\ pendingUnlinks' = pendingUnlinks - 1
  /\ UNCHANGED <<sessionVars, voiceVars, parserVars, setupVars, staleLocked, hop>>

(***************************************************************************)
(* Voice management: the files of the voices directory                     *)
(***************************************************************************)
Char(s, i) == SubSeq(s, i, i)
EndsWith(s, suffix) ==
  Len(s) >= Len(suffix) /\ SubSeq(s, Len(s) - Len(suffix) + 1, Len(s)) = suffix
\* path.basename(file, ext)
Basename(s, ext) == IF EndsWith(s, ext) THEN SubSeq(s, 1, Len(s) - Len(ext)) ELSE s

\* fs.readdirSync(voicesDir)
VoicesDir(mods, cfgs, cat) ==
  {v \o ".onnx" : v \in mods} \cup {v \o ".onnx.json" : v \in cfgs}
    \cup (IF cat = "missing" THEN {} ELSE {"voices.json"})

\* getAvailableVoices: the base names of the .onnx files
GetAvailableVoices(mods, cfgs, cat) ==
  {Basename(f, ".onnx") : f \in {g \in VoicesDir(mods, cfgs, cat) : EndsWith(g, ".onnx")}}

\* position of the first ch in s, or 0
IndexOf(s, ch) ==
  LET found == {j \in 1..Len(s) : Char(s, j) = ch}
  IN IF found = {} THEN 0 ELSE CHOOSE j \in found : \A k \in found : j <= k

\* String.prototype.split(ch)
RECURSIVE Split(_, _)
Split(s, ch) ==
  LET p == IndexOf(s, ch)
  IN IF p = 0 THEN <<s>>
     ELSE <<SubSeq(s, 1, p - 1)>> \o Split(SubSeq(s, p + 1, Len(s)), ch)

\* String.prototype.replace with a string pattern, and with a /g pattern
ReplaceFirst(s, ch, by) ==
  LET p == IndexOf(s, ch)
  IN IF p = 0 THEN s ELSE SubSeq(s, 1, p - 1) \o by \o SubSeq(s, p + 1, Len(s))
RECURSIVE ReplaceAll(_, _, _)
ReplaceAll(s, ch, by) ==
  LET p == IndexOf(s, ch)
  IN IF p = 0 THEN s
     ELSE SubSeq(s, 1, p - 1) \o by \o ReplaceAll(SubSeq(s, p + 1, Len(s)), ch, by)

\* getVoiceLabel: parts[1].replace throws a TypeError when the identifier holds
\* no '-'
GetVoiceLabel(voice) ==
  LET parts == Split(voice, "-")
  IN IF Len(parts) < 2 THEN [thrown |-> TRUE, label |-> ""]
     ELSE [thrown |-> FALSE,
           label |-> ReplaceFirst(parts[1], "_", " ") \o " - " \o
                     ReplaceAll(parts[2], "_", " ") \o
                     " (" \o (IF Len(parts) >= 3 THEN parts[3] ELSE "") \o ")"]

\* voices.map(voice => ({ label: getVoiceLabel(voice), ... })) throws
LabelsThrow(available) == \E v \in available : GetVoiceLabel(v).thrown

RemoveFileNoExistsCheck(files, v, fails) ==
  IF v \in files /\ ~fails
  THEN [files |-> files \ {v}, thrown |-> FALSE]
  ELSE [files |-> files, thrown |-> TRUE]

\* if (fs.existsSync(p)) fs.unlinkSync(p): unlinkSync throws when it fails
RemoveFile(files, v, fails) ==
  IF v \in files
  THEN IF fails THEN [files |-> files, thrown |-> TRUE]
       ELSE [files |-> files \ {v}, thrown |-> FALSE]
  ELSE [files |-> files, thrown |-> FALSE]

ResetSelectionNever(cfg, v) == cfg

\* removeVoice: the setting after the voice v was removed
ResetSelection(cfg, v) == IF cfg = v THEN DefaultVoice ELSE cfg

(***************************************************************************)
(* Voice management: the catalog and the voice identifier                  *)
(***************************************************************************)
\* the content of voices/voices.json: language -> voice -> size -> URLs
VoicesData ==
  ("English (en_US)" :>
     ("hfc_female" :> ("medium" :> [model |-> "URL1", config |-> "URL2"]))) @@
  ("English (en_GB)" :>
     ("alan" :> ("low" :> [model |-> "URL3", config |-> "URL4"])))

LoadVoicesDataLenient(cat) == [thrown |-> FALSE, data |-> VoicesData]

\* loadVoicesData: throws when the file is missing or is not valid JSON
LoadVoicesData(cat) ==
  IF cat = "ok" THEN [thrown |-> FALSE, data |-> VoicesData]
  ELSE [thrown |-> TRUE, data |-> <<>>]

\* selectedLanguage.match(/\(([^)]+)\)/)?.[1] || ''
LanguageCode(label) ==
  LET n == Len(label)
      closes(i) == {j \in (i + 2)..n : Char(label, j) = ")"}
      opens == {i \in 1..n : /\ Char(label, i) = "("
                             /\ i + 1 <= n
                             /\ Char(label, i + 1) # ")"
                             /\ closes(i) # {}}
  IN IF opens = {} THEN ""
     ELSE LET i == CHOOSE x \in opens : \A y \in opens : x <= y
              j == CHOOSE x \in closes(i) : \A y \in closes(i) : x <= y
          IN SubSeq(label, i + 1, j - 1)

VoiceIdNoSeparator(label, voice, size) == LanguageCode(label) \o voice \o size

\* line 174: the code, the voice and the size joined by '-' 
VoiceId(label, voice, size) == LanguageCode(label) \o "-" \o voice \o "-" \o size

\* how a downloadFile call of downloadVoice can end: resolved with the file
\* written, rejected with the file removed, rejected with a file left behind
DownloadOutcomes == {"resolved", "rejectedRemoved", "rejectedLeft"}

(***************************************************************************)
(* removeVoice                                                             *)
(***************************************************************************)
NewRm ==
  [pc |-> "idle", items |-> {}, voice |-> Null, result |-> "none",
   errors |-> 0, infos |-> 0, hadModel |-> FALSE, hadConfig |-> FALSE,
   wasSelected |-> FALSE]

NewSel ==
  [pc |-> "idle", items |-> {}, voice |-> Null, result |-> "none", errors |-> 0]

NewDv ==
  [pc |-> "idle", language |-> Null, voice |-> Null, size |-> Null,
   voiceId |-> Null, picks |-> 0, requests |-> 0, result |-> "none",
   error |-> "none", errors |-> 0, infos |-> 0, hadFiles |-> FALSE]

\* the record of a finished command is kept until the next command starts
Forget(r, new) == IF r.pc = "done" THEN new ELSE r

\* removeVoice, up to its quick pick
RemoveVoice ==
  /\ ~TickPending
  /\ rm.pc \in {"idle", "done"}
  /\ LET available == GetAvailableVoices(models, configs, catalog) IN
       rm' = IF available = {}
             THEN [NewRm EXCEPT !.pc = "done", !.result = "empty", !.errors = 1]
             ELSE IF LabelsThrow(available)
             THEN [NewRm EXCEPT !.pc = "done", !.result = "rejected"]
             ELSE [NewRm EXCEPT !.pc = "pick", !.items = available]
  /\ sel' = Forget(sel, NewSel)
  /\ dv' = Forget(dv, NewDv)
  /\ UNCHANGED <<downloadVars, parserVars, setupVars, lastOp, platform, arch, exeExists, models, config,
                 piperProcess, playerProcess, nCalls, call, proc,
                 configs, catalog>>

\* removeVoice, from the answer of its quick pick on
RemoveVoicePick ==
  /\ ~TickPending
  /\ rm.pc = "pick"
  /\ \E selection \in rm.items \cup {Null}, modelFails \in BOOLEAN, configFails \in BOOLEAN :
       IF selection = Null
       THEN /\ rm' = [rm EXCEPT !.pc = "done", !.result = "dismissed"]
            /\ UNCHANGED <<models, configs, config>>
       ELSE LET m == RemoveFile(models, selection, modelFails)
                c == IF m.thrown THEN [files |-> configs, thrown |-> TRUE]
                     ELSE RemoveFile(configs, selection, configFails)
            IN /\ models' = m.files
               /\ configs' = c.files
               /\ config' = IF c.thrown THEN config ELSE ResetSelection(config, selection)
               /\ rm' = [rm EXCEPT !.pc = "done",
                                   !.voice = selection,
                                   !.result = IF c.thrown THEN "failed" ELSE "removed",
                                   !.errors = IF c.thrown THEN 1 ELSE 0,
                                   !.infos = IF c.thrown THEN 0 ELSE 1,
                                   !.hadModel = selection \in models,
                                   !.hadConfig = selection \in configs,
                                   !.wasSelected = (config = selection)]
  /\ UNCHANGED <<downloadVars, parserVars, setupVars, lastOp, platform, arch, exeExists,
                 piperProcess, playerProcess, nCalls, call, proc,
                 catalog, sel, dv>>

(***************************************************************************)
(* selectVoice                                                             *)
(***************************************************************************)
\* selectVoice, up to its quick pick
SelectVoice ==
  /\ ~TickPending
  /\ sel.pc \in {"idle", "done"}
  /\ LET available == GetAvailableVoices(models, configs, catalog) IN
       sel' = IF available = {}
              THEN [NewSel EXCEPT !.pc = "done", !.result = "empty", !.errors = 1]
              ELSE IF LabelsThrow(available)
              THEN [NewSel EXCEPT !.pc = "done", !.result = "rejected"]
              ELSE [NewSel EXCEPT !.pc = "pick", !.items = available]
  /\ rm' = Forget(rm, NewRm)
  /\ dv' = Forget(dv, NewDv)
  /\ UNCHANGED <<downloadVars, parserVars, setupVars, lastOp, platform, arch, exeExists, models, config,
                 piperProcess, playerProcess, nCalls, call, proc,
                 configs, catalog>>

\* selectVoice, from the answer of its quick pick on
SelectVoicePick ==
  /\ ~TickPending
  /\ sel.pc = "pick"
  /\ \E selection \in sel.items \cup {Null} :
       IF selection = Null
       THEN /\ sel' = [sel EXCEPT !.pc = "done", !.result = "dismissed"]
            /\ UNCHANGED config
       ELSE /\ sel' = [sel EXCEPT !.pc = "done", !.voice = selection,
                                  !.result = "selected"]
            /\ config' = selection
  /\ UNCHANGED <<downloadVars, parserVars, setupVars, lastOp, platform, arch, exeExists, models,
                 piperProcess, playerProcess, nCalls, call, proc,
                 configs, catalog, rm, dv>>

(***************************************************************************)
(* downloadVoice                                                           *)
(***************************************************************************)
\* the catch of downloadVoice: one error message
DvFail(d, error) ==
  [d EXCEPT !.pc = "done", !.result = "failed", !.error = error, !.errors = @ + 1]

DvDismiss(d) == [d EXCEPT !.pc = "done", !.result = "dismissed"]

\* downloadVoice, up to the language pick
DownloadVoice ==
  /\ ~TickPending
  /\ dv.pc \in {"idle", "done"}
  /\ dv' = IF LoadVoicesData(catalog).thrown
           THEN DvFail(NewDv, "CatalogUnavailable")
           ELSE [NewDv EXCEPT !.pc = "pickLanguage", !.picks = 1]
  /\ rm' = Forget(rm, NewRm)
  /\ sel' = Forget(sel, NewSel)
  /\ UNCHANGED <<downloadVars, parserVars, setupVars, lastOp, platform, arch, exeExists, models, config,
                 piperProcess, playerProcess, nCalls, call, proc,
                 configs, catalog>>

\* the language was picked, or the pick dismissed
DownloadVoicePickLanguage ==
  /\ ~TickPending
  /\ dv.pc = "pickLanguage"
  /\ \E selection \in (DOMAIN VoicesData) \cup {Null} :
       dv' = IF selection = Null THEN DvDismiss(dv)
             ELSE [dv EXCEPT !.pc = "pickVoice", !.language = selection, !.picks = 2]
  /\ UNCHANGED <<downloadVars, parserVars, setupVars, lastOp, platform, arch, exeExists, models, config,
                 piperProcess, playerProcess, nCalls, call, proc,
                 configs, catalog, rm, sel>>

\* the voice was picked, or the pick dismissed
DownloadVoicePickVoice ==
  /\ ~TickPending
  /\ dv.pc = "pickVoice"
  /\ \E selection \in (DOMAIN VoicesData[dv.language]) \cup {Null} :
       dv' = IF selection = Null THEN DvDismiss(dv)
             ELSE [dv EXCEPT !.pc = "pickSize", !.voice = selection, !.picks = 3]
  /\ UNCHANGED <<downloadVars, parserVars, setupVars, lastOp, platform, arch, exeExists, models, config,
                 piperProcess, playerProcess, nCalls, call, proc,
                 configs, catalog, rm, sel>>

\* the size was picked: build the identifier and start the download of the
\* model file, whose write stream creates the file; or the pick was dismissed
DownloadVoicePickSize ==
  /\ ~TickPending
  /\ dv.pc = "pickSize"
  /\ \E selection \in (DOMAIN VoicesData[dv.language][dv.voice]) \cup {Null} :
       IF selection = Null
       THEN /\ dv' = DvDismiss(dv)
            /\ UNCHANGED models
       ELSE LET id == VoiceId(dv.language, dv.voice, selection) IN
            /\ dv' = [dv EXCEPT !.pc = "model", !.size = selection,
                                !.voiceId = id, !.requests = 1,
                                !.hadFiles = id \in models \/ id \in configs]
            /\ models' = models \cup {id}
  /\ UNCHANGED <<downloadVars, parserVars, setupVars, lastOp, platform, arch, exeExists, config,
                 piperProcess, playerProcess, nCalls, call, proc,
                 configs, catalog, rm, sel>>

\* the files left by a downloadFile call that ended with outcome
AfterDownload(files, id, outcome) ==
  IF outcome = "rejectedRemoved" THEN files \ {id} ELSE files

\* downloadFile of the model file has settled; when it resolved, the download
\* of the config file starts
DownloadVoiceModelDone ==
  /\ ~TickPending
  /\ dv.pc = "model"
  /\ \E outcome \in DownloadOutcomes :
       /\ outcome = "resolved" => dv.voiceId \in models
       /\ models' = AfterDownload(models, dv.voiceId, outcome)
       /\ IF outcome = "resolved"
          THEN /\ dv' = [dv EXCEPT !.pc = "config", !.requests = 2]
               /\ configs' = configs \cup {dv.voiceId}
          ELSE /\ dv' = DvFail(dv, "DownloadError")
               /\ UNCHANGED configs
  /\ UNCHANGED <<downloadVars, parserVars, setupVars, lastOp, platform, arch, exeExists, config,
                 piperProcess, playerProcess, nCalls, call, proc,
                 catalog, rm, sel>>

\* downloadFile of the config file has settled; when it resolved, playback is
\* stopped and the 500 ms delay starts
DownloadVoiceConfigDone ==
  /\ ~TickPending
  /\ dv.pc = "config"
  /\ \E outcome \in DownloadOutcomes :
       /\ outcome = "resolved" => dv.voiceId \in configs
       /\ configs' = AfterDownload(configs, dv.voiceId, outcome)
       /\ IF outcome = "resolved"
          THEN LET r == StopCurrentPlayback(piperProcess, playerProcess, proc) IN
               /\ dv' = [dv EXCEPT !.pc = "delay"]
               /\ piperProcess' = r.piperProcess
               /\ playerProcess' = r.playerProcess
               /\ proc' = r.proc
          ELSE /\ dv' = DvFail(dv, "DownloadError")
               /\ UNCHANGED <<piperProcess, playerProcess, proc>>
  /\ UNCHANGED <<downloadVars, parserVars, setupVars, lastOp, platform, arch, exeExists, models, config,
                 nCalls, call, catalog, rm, sel>>

FilesVerifiedAlways(id, mods, cfgs) == TRUE

\* fs.existsSync(modelPath) && fs.existsSync(configPath)
FilesVerified(id, mods, cfgs) == id \in mods /\ id \in cfgs

\* after the delay: verify both files and select the downloaded voice
DownloadVoiceFinish ==
  /\ ~TickPending
  /\ dv.pc = "delay"
  /\ IF ~FilesVerified(dv.voiceId, models, configs)
     THEN /\ dv' = DvFail(dv, "FilesNotFound")
          /\ UNCHANGED config
     ELSE /\ dv' = [dv EXCEPT !.pc = "done", !.result = "downloaded", !.infos = 1]
          /\ config' = dv.voiceId
  /\ UNCHANGED <<downloadVars, parserVars, setupVars, lastOp, platform, arch, exeExists, models,
                 piperProcess, playerProcess, nCalls, call, proc,
                 configs, catalog, rm, sel>>

\* no voice management command was run
VoiceIdle ==
  /\ configs = {DefaultVoice}
  /\ catalog = "ok"
  /\ rm = NewRm
  /\ sel = NewSel
  /\ dv = NewDv

(***************************************************************************)
(* parse-voices.js: the catalog parser                                     *)
(***************************************************************************)
\* \s of the regular expressions and of trim(), for the characters of the model
IsSpace(ch) == ch = " "

\* the backquote character of VOICES.md, which a string of the model cannot
\* hold: the character ^ stands for it
Backquote == "^"

\* String.prototype.trim
Trim(s) ==
  LET inked == {i \in 1..Len(s) : ~IsSpace(Char(s, i))}
  IN IF inked = {} THEN ""
     ELSE SubSeq(s, CHOOSE i \in inked : \A j \in inked : i <= j,
                    CHOOSE i \in inked : \A j \in inked : i >= j)

\* the literal lit occurs in s at position i
MatchAt(s, i, lit) ==
  i >= 1 /\ i + Len(lit) - 1 <= Len(s) /\ SubSeq(s, i, i + Len(lit) - 1) = lit

\* position of the first occurrence of the character ch in s at or after i, or 0
FirstAt(s, i, ch) ==
  LET found == {j \in i..Len(s) : Char(s, j) = ch}
  IN IF found = {} THEN 0 ELSE CHOOSE j \in found : \A k \in found : j <= k

\* line 24: the line is blank or is the title
IsSkipped(line) == Trim(line) = "" \/ Trim(line) = "# Voices"

MatchLanguageNoBackticks(line) ==
  LET p == FirstAt(line, 3, "(")
      q == IF p = 0 THEN 0 ELSE FirstAt(line, p + 1, ")")
  IN IF /\ MatchAt(line, 1, "* ")
        /\ p >= 5
        /\ Char(line, p - 1) = " "
        /\ q >= p + 2
     THEN [ok |-> TRUE, name |-> SubSeq(line, 3, p - 2), code |-> SubSeq(line, p + 1, q - 1)]
     ELSE [ok |-> FALSE, name |-> "", code |-> ""]

\* line 30, the expression that starts /^\* ([^(]+) \( and goes on with the code
\* between two backquotes: the name and the code of a language line, or no match
MatchLanguage(line) ==
  LET p == FirstAt(line, 3, "(")
      q == IF p = 0 THEN 0 ELSE FirstAt(line, p + 2, Backquote)
  IN IF /\ MatchAt(line, 1, "* ")
        /\ p >= 5
        /\ Char(line, p - 1) = " "
        /\ MatchAt(line, p + 1, Backquote)
        /\ q >= p + 3
     THEN [ok |-> TRUE, name |-> SubSeq(line, 3, p - 2), code |-> SubSeq(line, p + 2, q - 1)]
     ELSE [ok |-> FALSE, name |-> "", code |-> ""]

\* /^\s{4}\* ([^\s]+)$/ : the name of a voice line, or Null
MatchVoice(line) ==
  IF /\ Len(line) >= 7
     /\ \A i \in 1..4 : IsSpace(Char(line, i))
     /\ MatchAt(line, 5, "* ")
     /\ \A i \in 7..Len(line) : ~IsSpace(Char(line, i))
  THEN SubSeq(line, 7, Len(line))
  ELSE Null

\* /^\s{8}\* [^\s]+ - \[\[model\]/ : the test of a quality line
IsQualityLine(line) ==
  LET s == FirstAt(line, 11, " ")
  IN /\ \A i \in 1..8 : i <= Len(line) /\ IsSpace(Char(line, i))
     /\ MatchAt(line, 9, "* ")
     /\ s >= 12
     /\ MatchAt(line, s, " - [[model]")

\* /^\s{8}\* ([^\s]+) - \[\[model\]\(([^)]+)\)\] \[\[config\]\(([^)]+)\)\]/ :
\* the tier and the two URLs of a quality line, or no match
MatchQuality(line) ==
  LET s  == FirstAt(line, 11, " ")
      u1 == s + Len(" - [[model](")
      c1 == FirstAt(line, u1, ")")
      u2 == c1 + Len(")] [[config](")
      c2 == FirstAt(line, u2, ")")
  IN IF /\ IsQualityLine(line)
        /\ MatchAt(line, s, " - [[model](")
        /\ c1 > u1
        /\ MatchAt(line, c1, ")] [[config](")
        /\ c2 > u2
        /\ MatchAt(line, c2, ")]")
     THEN [ok |-> TRUE,
           quality |-> SubSeq(line, 11, s - 1),
           model |-> SubSeq(line, u1, c1 - 1),
           config |-> SubSeq(line, u2, c2 - 1)]
     ELSE [ok |-> FALSE, quality |-> "", model |-> "", config |-> ""]

\* an object without keys, and obj[k] = v
EmptyObject == <<>>
Put(obj, k, v) == [x \in (DOMAIN obj) \cup {k} |-> IF x = k THEN v ELSE obj[x]]

\* lines 32-34: the key of a language
LanguageKey(m) == Trim(m.name) \o " (" \o Trim(m.code) \o ")"

\* the lines a document of the model is made of: two language lines, a line
\* with the code not in backquotes, a voice line, a quality line, a blank line
LanguageLine == "* English (^en_US^)"
OtherLanguageLine == "* German (^de_DE^)"
PlainLanguageLine == "* English (en_US)"
VoiceLine == "    * amy"
QualityLine == "        * medium - [[model](URL1)] [[config](URL2)]"
BlankLine == ""
Lines ==
  {LanguageLine, OtherLanguageLine, PlainLanguageLine, VoiceLine, QualityLine,
   BlankLine}

\* documents of up to MaxLines lines
Documents == UNION {[1..n -> Lines] : n \in 0..MaxLines}

\* one iteration of the loop of lines 20-65
ParseLine ==
  /\ lineNo < Len(lines)
  /\ lineNo' = lineNo + 1
  /\ LET line == lines[lineNo + 1]
         lang == MatchLanguage(line)
         voice == MatchVoice(line)
         qual == MatchQuality(line)
     IN
       IF IsSkipped(line)
       THEN UNCHANGED <<currentLanguage, currentVoice, voices>>
       ELSE IF lang.ok
       THEN /\ currentLanguage' = LanguageKey(lang)
            /\ voices' = Put(voices, LanguageKey(lang), EmptyObject)
            /\ currentVoice' = Null
       ELSE IF voice # Null
       THEN IF currentLanguage # Null
            THEN /\ currentVoice' = Trim(voice)
                 /\ voices' = Put(voices, currentLanguage,
                                  Put(voices[currentLanguage], Trim(voice), EmptyObject))
                 /\ UNCHANGED currentLanguage
            ELSE UNCHANGED <<currentLanguage, currentVoice, voices>>
       ELSE IF IsQualityLine(line) /\ qual.ok
                 /\ currentLanguage # Null /\ currentVoice # Null
       THEN /\ voices' =
                 Put(voices, currentLanguage,
                     Put(voices[currentLanguage], currentVoice,
                         Put(voices[currentLanguage][currentVoice], Trim(qual.quality),
                             [model |-> Trim(qual.model), config |-> Trim(qual.config)])))
            /\ UNCHANGED <<currentLanguage, currentVoice>>
       ELSE UNCHANGED <<currentLanguage, currentVoice, voices>>
  /\ UNCHANGED <<sessionVars, downloadVars, voiceVars, setupVars, lines, picked>>

(***************************************************************************)
(* downloadVoice, lines 170-174: the voice identifier of three picks       *)
(***************************************************************************)
\* language keys, voice names and sizes of the identifier model: names and
\* sizes are written without '-', as the catalog writes them
IdLabels == {"English (a)", "German (ab)", "French (a_b)", "Dutch (a-b)"}
IdVoices == {"b", "c", "bc", "b_c"}
IdSizes == {"c", "d", "cd", "low"}

NoPick == [language |-> Null, voice |-> Null, size |-> Null, voiceId |-> Null]

\* the identifier of the three picks is built
BuildVoiceId ==
  /\ picked.language # Null
  /\ picked.voiceId = Null
  /\ picked' = [picked EXCEPT !.voiceId = VoiceId(picked.language, picked.voice, picked.size)]
  /\ UNCHANGED <<sessionVars, downloadVars, voiceVars, setupVars,
                 lines, lineNo, currentLanguage, currentVoice, voices>>

\* the parser has not run and nothing was picked
ParserIdle ==
  /\ lines = <<>>
  /\ lineNo = 0
  /\ currentLanguage = Null
  /\ currentVoice = Null
  /\ voices = EmptyObject
  /\ picked = NoPick

(***************************************************************************)
(* fixSymlinks: the shared-library links of the Linux binary directory     *)
(***************************************************************************)
\* getLinuxArchitecture
GetLinuxArchitecture(a) ==
  CASE a = "x64"   -> "linux_x86_64"
    [] a = "arm64" -> "linux_aarch64"
    [] a = "arm"   -> "linux_armv7l"
    [] OTHER       -> "linux_x86_64"

\* getSymlinkMappings
SymlinkMappings ==
  << [target |-> "libespeak-ng.so.1.52.0.1",    link |-> "libespeak-ng.so.1"],
     [target |-> "libespeak-ng.so.1",           link |-> "libespeak-ng.so"],
     [target |-> "libonnxruntime.so.1.14.1",    link |-> "libonnxruntime.so"],
     [target |-> "libpiper_phonemize.so.1.2.0", link |-> "libpiper_phonemize.so.1"],
     [target |-> "libpiper_phonemize.so.1",     link |-> "libpiper_phonemize.so"] >>

Entries5 == DOMAIN SymlinkMappings
LinkNames == {SymlinkMappings[i].link : i \in Entries5}
TargetNames == {SymlinkMappings[i].target : i \in Entries5}
\* the library files shipped with the extension: targets that are no links
LibraryNames == TargetNames \ LinkNames

\* an entry of the directory is "absent", a regular "file", a "dangling"
\* symbolic link, or a symbolic link, written as the name it points to
\* fs.existsSync follows symbolic links
RECURSIVE ExistsSync(_, _)
ExistsSync(files, name) ==
  IF name \notin DOMAIN files THEN FALSE
  ELSE IF files[name] = "file" THEN TRUE
  ELSE IF files[name] \in {"absent", "dangling"} THEN FALSE
  ELSE ExistsSync(files, files[name])

CreateSymlinkRethrow(files, target, link, unlinkFails, symlinkFails) ==
  IF ~ExistsSync(files, target)
  THEN [files |-> files, thrown |-> FALSE, warned |-> TRUE, failed |-> FALSE]
  ELSE IF ExistsSync(files, link) /\ unlinkFails
  THEN [files |-> files, thrown |-> TRUE, warned |-> FALSE, failed |-> TRUE]
  ELSE LET cleared == IF ExistsSync(files, link)
                      THEN [files EXCEPT ![link] = "absent"] ELSE files
       IN IF cleared[link] # "absent" \/ symlinkFails
          THEN [files |-> cleared, thrown |-> TRUE, warned |-> FALSE, failed |-> TRUE]
          ELSE [files |-> [cleared EXCEPT ![link] = target],
                thrown |-> FALSE, warned |-> FALSE, failed |-> FALSE]

\* createSymlink: a missing target is skipped with a warning; an existing link
\* is unlinked and the link is created; an error of unlink or symlink (symlink
\* fails when an entry is still at the link path) is caught and logged
CreateSymlink(files, target, link, unlinkFails, symlinkFails) ==
  IF ~ExistsSync(files, target)
  THEN [files |-> files, thrown |-> FALSE, warned |-> TRUE, failed |-> FALSE]
  ELSE IF ExistsSync(files, link) /\ unlinkFails
  THEN [files |-> files, thrown |-> FALSE, warned |-> FALSE, failed |-> TRUE]
  ELSE LET cleared == IF ExistsSync(files, link)
                      THEN [files EXCEPT ![link] = "absent"] ELSE files
       IN IF cleared[link] # "absent" \/ symlinkFails
          THEN [files |-> cleared, thrown |-> FALSE, warned |-> FALSE, failed |-> TRUE]
          ELSE [files |-> [cleared EXCEPT ![link] = target],
                thrown |-> FALSE, warned |-> FALSE, failed |-> FALSE]

NewFix ==
  [pc |-> "idle", i |-> 1, attempted |-> <<>>, promise |-> "none",
   warnings |-> 0, failures |-> 0]

\* the binary directory of this architecture is on disk
BinDirExists == binDir.name = GetLinuxArchitecture(arch)

\* fixSymlinks, up to its loop
FixSymlinks ==
  /\ fix.pc = "idle"
  /\ fix' = IF platform # "linux" \/ ~BinDirExists
            THEN [fix EXCEPT !.pc = "done", !.promise = "resolved"]
            ELSE [fix EXCEPT !.pc = "loop", !.promise = "pending"]
  /\ UNCHANGED <<sessionVars, downloadVars, voiceVars, parserVars, binDir>>

\* one iteration of the loop: await createSymlink(binaryDir, target, link)
FixSymlinksEntry ==
  /\ fix.pc = "loop"
  /\ \E unlinkFails \in BOOLEAN, symlinkFails \in BOOLEAN :
       LET e == SymlinkMappings[fix.i]
           r == CreateSymlink(binDir.files, e.target, e.link, unlinkFails, symlinkFails)
           last == fix.i = Len(SymlinkMappings)
       IN /\ binDir' = [binDir EXCEPT !.files = r.files]
          /\ fix' = [fix EXCEPT
                       !.attempted = Append(@, e.link),
                       !.warnings = @ + (IF r.warned THEN 1 ELSE 0),
                       !.failures = @ + (IF r.failed THEN 1 ELSE 0),
                       !.i = IF r.thrown THEN @ ELSE @ + 1,
                       !.pc = IF r.thrown \/ last THEN "done" ELSE "loop",
                       !.promise = IF r.thrown THEN "rejected"
                                   ELSE IF last THEN "resolved" ELSE @]
  /\ UNCHANGED <<sessionVars, downloadVars, voiceVars, parserVars>>

\* fixSymlinks has not run; the directory of the model is the x64 one
SetupIdle ==
  /\ binDir = [name |-> "linux_x86_64",
               files |-> [n \in LinkNames \cup TargetNames |->
                            IF n \in LibraryNames THEN "file" ELSE "absent"]]
  /\ fix = NewFix

\* the extension is idle: no readText was issued
SessionIdle ==
  /\ platform = "linux"
  /\ arch = "x64"
  /\ exeExists = TRUE
  /\ models = {DefaultVoice}
  /\ config = Unset
  /\ piperProcess = 0
  /\ playerProcess = 0
  /\ nCalls = 0
  /\ call = [c \in Calls |-> NewCall]
  /\ proc = [c \in Calls |-> NoProcs]
  /\ lastOp = "activate"

\* no download was started
DownloadIdle ==
  /\ dest = NoFile
  /\ staleLocked = FALSE
  /\ hop = [h \in Hops |-> NewHop]
  /\ pendingUnlinks = 0

Init == InitSession /\ DownloadIdle /\ VoiceIdle /\ ParserIdle /\ SetupIdle

Next ==
  \/ \E text \in Texts : ReadText(text)
  \/ \E c \in Calls : ReadTextResume(c)
  \/ \E c \in Calls : PiperError(c)
  \/ \E c \in Calls : PlayerError(c)
  \/ \E c \in Calls : PiperClose(c)
  \/ \E c \in Calls : PlayerClose(c)
  \/ StopPlayback

Spec == Init /\ [][Next]_vars

DownloadInit == SessionIdle /\ InitDownload /\ VoiceIdle /\ ParserIdle /\ SetupIdle

DownloadNext ==
  \/ DownloadFile
  \/ \E h \in Hops : Response(h)
  \/ \E h \in Hops : RequestError(h)
  \/ \E h \in Hops : WriteChunk(h)
  \/ \E h \in Hops : Finish(h)
  \/ \E h \in Hops : FileError(h)
  \/ UnlinkDone

DownloadSpec == DownloadInit /\ [][DownloadNext]_vars

(***************************************************************************)
(* The voice management commands                                           *)
(***************************************************************************)
VoiceInit ==
  /\ platform = "linux"
  /\ arch = "x64"
  /\ exeExists = TRUE
  /\ models \in SUBSET Voices
  /\ configs \in SUBSET Voices
  /\ config \in {Unset, DefaultVoice, OtherVoice}
  /\ catalog \in {"ok", "missing", "malformed"}
  /\ piperProcess = 0
  /\ playerProcess = 0
  /\ nCalls = 0
  /\ call = [c \in Calls |-> NewCall]
  /\ proc = [c \in Calls |-> NoProcs]
  /\ lastOp = "activate"
  /\ rm = NewRm
  /\ sel = NewSel
  /\ dv = NewDv
  /\ DownloadIdle
  /\ SetupIdle
  /\ ParserIdle

VoiceNext ==
  \/ RemoveVoice
  \/ RemoveVoicePick
  \/ SelectVoice
  \/ SelectVoicePick
  \/ DownloadVoice
  \/ DownloadVoicePickLanguage
  \/ DownloadVoicePickVoice
  \/ DownloadVoicePickSize
  \/ DownloadVoiceModelDone
  \/ DownloadVoiceConfigDone
  \/ DownloadVoiceFinish

VoiceSpec == VoiceInit /\ [][VoiceNext]_vars

(***************************************************************************)
(* readText requests while the voice setting is changed by selectVoice     *)
(***************************************************************************)
SettingInit ==
  /\ platform = "linux"
  /\ arch = "x64"
  /\ exeExists = TRUE
  /\ models \in (SUBSET Voices) \ {{}}
  /\ config \in {Unset, DefaultVoice, OtherVoice}
  /\ piperProcess = 0
  /\ playerProcess = 0
  /\ nCalls = 0
  /\ call = [c \in Calls |-> NewCall]
  /\ proc = [c \in Calls |-> NoProcs]
  /\ lastOp = "activate"
  /\ DownloadIdle
  /\ SetupIdle
  /\ VoiceIdle
  /\ ParserIdle

\* the requests of a client, the errors of spawning and the selectVoice
\* command; the processes are not followed to their exit
SettingNext ==
  \/ \E text \in Texts : ReadText(text)
  \/ \E c \in Calls : ReadTextResume(c)
  \/ \E c \in Calls : PiperError(c)
  \/ \E c \in Calls : PlayerError(c)
  \/ SelectVoice
  \/ SelectVoicePick

SettingSpec == SettingInit /\ [][SettingNext]_vars

(***************************************************************************)
(* The voice management commands run one after the other, starting with    *)
(* the model file of the voice in use on disk                              *)
(***************************************************************************)
\* no voice management command is running
NoCommandRunning ==
  /\ rm.pc \in {"idle", "done"}
  /\ sel.pc \in {"idle", "done"}
  /\ dv.pc \in {"idle", "done"}

SequenceInit ==
  /\ platform = "linux"
  /\ arch = "x64"
  /\ exeExists = TRUE
  /\ models \in (SUBSET Voices) \ {{}}
  /\ configs = models
  /\ config \in {c \in {Unset, DefaultVoice, OtherVoice} : GetVoice(c) \in models}
  /\ catalog = "ok"
  /\ piperProcess = 0
  /\ playerProcess = 0
  /\ nCalls = 0
  /\ call = [c \in Calls |-> NewCall]
  /\ proc = [c \in Calls |-> NoProcs]
  /\ lastOp = "activate"
  /\ rm = NewRm
  /\ sel = NewSel
  /\ dv = NewDv
  /\ DownloadIdle
  /\ SetupIdle
  /\ ParserIdle

\* a command is started only when the previous one has returned
SequenceNext ==
  \/ NoCommandRunning /\ RemoveVoice
  \/ RemoveVoicePick
  \/ NoCommandRunning /\ SelectVoice
  \/ SelectVoicePick
  \/ NoCommandRunning /\ DownloadVoice
  \/ DownloadVoicePickLanguage
  \/ DownloadVoicePickVoice
  \/ DownloadVoicePickSize
  \/ DownloadVoiceModelDone
  \/ DownloadVoiceConfigDone
  \/ DownloadVoiceFinish

SequenceSpec == SequenceInit /\ [][SequenceNext]_vars

(***************************************************************************)
(* The public operations and the readAloud command when an internal error  *)
(* occurs: a missing executable, a failing spawn, a malformed catalog, a *)
(* file that cannot be deleted, a voice file whose name is not an          *)
(* identifier                                                              *)
(***************************************************************************)
CommandInit ==
  /\ platform = "linux"
  /\ arch = "x64"
  /\ exeExists \in BOOLEAN
  /\ models \in SUBSET {DefaultVoice, CustomVoice}
  /\ configs = models
  /\ config = Unset
  /\ catalog = "malformed"
  /\ piperProcess = 0
  /\ playerProcess = 0
  /\ nCalls = 0
  /\ call = [c \in Calls |-> NewCall]
  /\ proc = [c \in Calls |-> NoProcs]
  /\ lastOp = "activate"
  /\ rm = NewRm
  /\ sel = NewSel
  /\ dv = NewDv
  /\ DownloadIdle
  /\ SetupIdle
  /\ ParserIdle

\* the processes are not followed to their exit
CommandNext ==
  \/ \E text \in Texts : ReadText(text)
  \/ \E text \in Texts : ReadAloud(text)
  \/ \E c \in Calls : ReadTextResume(c)
  \/ \E c \in Calls : PiperError(c)
  \/ \E c \in Calls : PlayerError(c)
  \/ SelectVoice
  \/ SelectVoicePick
  \/ RemoveVoice
  \/ RemoveVoicePick
  \/ DownloadVoice

CommandSpec == CommandInit /\ [][CommandNext]_vars

(***************************************************************************)
(* fixSymlinks run on a binary directory                                   *)
(***************************************************************************)
SetupInit ==
  /\ platform \in {"linux", "darwin"}
  /\ arch \in {"x64", "ia32"}
  /\ exeExists = TRUE
  /\ models = {DefaultVoice}
  /\ config = Unset
  /\ piperProcess = 0
  /\ playerProcess = 0
  /\ nCalls = 0
  /\ call = [c \in Calls |-> NewCall]
  /\ proc = [c \in Calls |-> NoProcs]
  /\ lastOp = "activate"
  /\ DownloadIdle
  /\ VoiceIdle
  /\ ParserIdle
  /\ binDir \in [name : {"linux_x86_64", Null},
                 files : {f \in [LinkNames \cup TargetNames ->
                                   {"absent", "file", "dangling"}] :
                            \A n \in LibraryNames : f[n] # "dangling"}]
  /\ fix = NewFix

SetupNext ==
  \/ FixSymlinks
  \/ FixSymlinksEntry

SetupSpec == SetupInit /\ [][SetupNext]_vars

(***************************************************************************)
(* The catalog parser run on a document                                    *)
(***************************************************************************)
ParserInit ==
  /\ SessionIdle
  /\ DownloadIdle
  /\ SetupIdle
  /\ VoiceIdle
  /\ lines \in Documents
  /\ lineNo = 0
  /\ currentLanguage = Null
  /\ currentVoice = Null
  /\ voices = EmptyObject
  /\ picked = NoPick

ParserNext == ParseLine

ParserSpec == ParserInit /\ [][ParserNext]_vars

(***************************************************************************)
(* The voice identifier built from three picks                             *)
(***************************************************************************)
VoiceIdInit ==
  /\ SessionIdle
  /\ DownloadIdle
  /\ SetupIdle
  /\ VoiceIdle
  /\ lines = <<>>
  /\ lineNo = 0
  /\ currentLanguage = Null
  /\ currentVoice = Null
  /\ voices = EmptyObject
  /\ picked \in [language : IdLabels, voice : IdVoices, size : IdSizes, voiceId : {Null}]

VoiceIdNext == BuildVoiceId

VoiceIdSpec == VoiceIdInit /\ [][VoiceIdNext]_vars

(***************************************************************************)
(* readText on every platform of the table                                 *)
(***************************************************************************)
PlatformInit ==
  /\ platform \in Platforms
  /\ arch \in Archs
  /\ exeExists = TRUE
  /\ models = {DefaultVoice}
  /\ config = Unset
  /\ piperProcess = 0
  /\ playerProcess = 0
  /\ nCalls = 0
  /\ call = [c \in Calls |-> NewCall]
  /\ proc = [c \in Calls |-> NoProcs]
  /\ lastOp = "activate"
  /\ DownloadIdle
  /\ SetupIdle
  /\ VoiceIdle
  /\ ParserIdle

\* the requests of a client and the errors of spawning; the processes are not
\* followed to their exit
PlatformNext ==
  \/ \E text \in Texts : ReadText(text)
  \/ \E c \in Calls : ReadTextResume(c)
  \/ \E c \in Calls : PiperError(c)
  \/ \E c \in Calls : PlayerError(c)
  \/ StopPlayback

PlatformSpec == PlatformInit /\ [][PlatformNext]_vars

(***************************************************************************)
(* Properties of the synthesis pipeline orchestrator                       *)
(***************************************************************************)
\* a process that is alive and has been sent no kill signal
Unstopped(st) == st = "running"
SessionUnstopped(c) == Unstopped(proc[c].piper) \/ Unstopped(proc[c].player)
BothKilled(c) == Killed(proc[c].piper) /\ Killed(proc[c].player)
NoKillEverSent ==
  \A c \in Calls : ~Killed(proc[c].piper) /\ ~Killed(proc[c].player)

\* C1: at most one session has a process that is alive and has not been sent a
\* kill signal: a readText stops every earlier session before it spawns its pair.
C1_AtMostOneLiveSession ==
  \A c, d \in Calls : c # d => ~(SessionUnstopped(c) /\ SessionUnstopped(d))

\* C2: right after a stopPlayback call no process of any session is left alive
\* without a kill signal.
C2_StopKillsEveryLiveProcess ==
  lastOp = "stopPlayback" => \A c \in Calls : ~SessionUnstopped(c)

\* C3: the promise of a readText call is resolved only once the playback process
\* of that call has exited with status 0.
C3_ResolvedOnlyAfterPlaybackExit0 ==
  \A c \in Calls : call[c].promise = "resolved" => proc[c].player = "exit0"

\* a spawn error was emitted, or piper closed with a code that is neither 0 nor
\* null, or the player closed with a non-zero code
FailureDelivered(c) ==
  \/ proc[c].piper \in {"errored", "exitErr", "exit1"}
  \/ proc[c].player \in {"errored", "exitErr", "exit1"}

\* C4: once a failure event of a session has been delivered, the promise of its
\* readText call is rejected, whatever the order of the two processes' events.
C4_FailureEndsRejected ==
  \A c \in Calls : FailureDelivered(c) => call[c].promise = "rejected"

\* both processes of call c were killed, and by stopPlayback: no later readText
\* was issued that could have preempted the session
StoppedByStopPlayback(c) == BothKilled(c) /\ nCalls = c

\* C5: the promise of a running session that stopPlayback ended (both processes
\* killed) is not rejected, whichever exit event is delivered first.
C5_StoppedSessionNotRejected ==
  \A c \in Calls : StoppedByStopPlayback(c) => call[c].promise # "rejected"

\* the delay of call c has elapsed and its checks have run
Resumed(c) == call[c].phase \in {"thrown", "spawned"} /\ call[c].text # ""
FileMissing == ~exeExists \/ GetVoice(config) \notin models

\* C6: a readText that finds the synthesis executable or the selected voice's
\* model file missing rejects with a not-found error and spawns no process.
C6_MissingFileRejectsWithoutSpawn ==
  \A c \in Calls :
    (Resumed(c) /\ PlatformSupported(platform) /\ FileMissing) =>
      /\ call[c].promise = "rejected"
      /\ call[c].reason \in {"ExecutableNotFound", "VoiceFileNotFound"}
      /\ call[c].reason = "ExecutableNotFound" <=> ~exeExists
      /\ proc[c] = NoProcs
      /\ call[c].pipe = NoPipeline

C6_Witness ==
  \E c \in Calls :
    /\ Resumed(c) /\ PlatformSupported(platform) /\ exeExists
    /\ GetVoice(config) \notin models
    /\ call[c].reason = "VoiceFileNotFound"

\* C7: a stopPlayback called while both handles are undefined sends no kill
\* signal, spawns nothing, settles nothing and leaves the handles and the
\* selected voice as they were, so any number of such calls equals one.
C7_IdleStopIsNoOp ==
  [][(lastOp' = "stopPlayback" /\ piperProcess = 0 /\ playerProcess = 0) =>
       UNCHANGED <<piperProcess, playerProcess, proc, call, nCalls, config, models>>]_vars

C7_Witness ==
  /\ lastOp = "stopPlayback"
  /\ piperProcess = 0 /\ playerProcess = 0
  /\ NoKillEverSent
  /\ \A c \in Calls : ~Alive(proc[c].piper) /\ ~Alive(proc[c].player)
  /\ \E c \in Calls : Exited(proc[c].piper) /\ Exited(proc[c].player)

\* position of step x in the log of a pipeline
Pos(log, x) == CHOOSE i \in 0..Len(log) : (i = 0 /\ \A j \in 1..Len(log) : log[j] # x)
                                        \/ (i > 0 /\ log[i] = x)

\* C8: in every call that reaches spawning the steps are: spawn synthesis, spawn
\* playback, pipe, write the text, end the input; the write and the end come
\* after both processes exist and the pipe is connected.
C8_WriteAfterSpawnsAndPipe ==
  \A c \in Calls : call[c].phase = "spawned" =>
    LET log == call[c].pipe.log IN
      /\ 0 < Pos(log, "spawnPiper")
      /\ Pos(log, "spawnPiper") < Pos(log, "spawnPlayer")
      /\ Pos(log, "spawnPlayer") < Pos(log, "pipe")
      /\ Pos(log, "pipe") < Pos(log, "write")
      /\ Pos(log, "write") < Pos(log, "end")
      /\ call[c].pipe.piped
      /\ call[c].pipe.stdin = call[c].text
      /\ call[c].pipe.stdinEnded

C8_Witness ==
  \E c \in Calls :
    /\ call[c].phase = "spawned"
    /\ call[c].pipe.stdin = "hello"
    /\ proc[c].piper = "running" /\ proc[c].player = "running"

(***************************************************************************)
(* Properties of downloadFile                                              *)
(***************************************************************************)
\* the download has settled and nothing of it is still in progress
DownloadQuiet ==
  /\ hop[1].promise \in {"resolved", "rejected"}
  /\ pendingUnlinks = 0
  /\ \A h \in Hops :
       /\ hop[h].state # "requested"
       /\ hop[h].stream # "doomed"
       /\ ~(hop[h].state = "piping" /\ hop[h].stream = "open")

\* the destination holds the whole, non-empty body of a 200 response
CompleteFile ==
  /\ dest.kind = "hop"
  /\ hop[dest.h].status = 200
  /\ hop[dest.h].written # <<>>
  /\ hop[dest.h].written = Body(dest.h, hop[dest.h].bodyLen)

\* C9: once downloadFile has settled (and every removal it issued is done), the
\* destination holds a complete non-empty file equal to the response body or
\* no file at all; stated for a destination whose earlier file can be removed.
C9_CompleteFileOrNone ==
  (DownloadQuiet /\ ~staleLocked) => (dest.kind = "none" \/ CompleteFile)

\* hop h received a final response whose status is not 200
FinalNon200(h) == hop[h].state = "failed" /\ hop[h].status \notin {0, 200}

\* C10 as stated: a final response with a status other than 200 rejects the
\* download with an error carrying that status, and its body is never written.
C10_Non200RejectsWithStatus ==
  \A h \in Hops : FinalNon200(h) =>
    /\ hop[1].promise = "rejected"
    /\ hop[1].reason = DownloadFailed(hop[h].status)
    /\ hop[h].written = <<>>

\* an 'error' of a destination write stream was handled
StreamErrorSeen == \E j \in Hops : hop[j].stream = "errored"

\* C10 amended: a final response with a status other than 200 leaves the
\* download rejected and its body unwritten; the error carries that status
\* unless an earlier error event, of a write stream, had already rejected it.
C10_Non200RejectsBodyUnwritten ==
  \A h \in Hops : FinalNon200(h) =>
    /\ hop[1].promise = "rejected"
    /\ hop[h].written = <<>>
    /\ IF StreamErrorSeen
       THEN hop[1].reason \in {DownloadFailed(hop[h].status), OtherError("WriteError")}
       ELSE hop[1].reason = DownloadFailed(hop[h].status)

C10_Witness ==
  \E h \in Hops :
    /\ FinalNon200(h)
    /\ h > 1
    /\ hop[h].status = 404
    /\ hop[h].bodyLen > 0
    /\ hop[1].reason = DownloadFailed(404)

\* the write stream of hop h has emitted 'finish': the whole body was streamed
FullyStreamed(h) == hop[h].state = "finished"

\* C11: a download whose 200 response has a zero-length body is rejected with
\* the empty-download error once its stream has finished, and is never
\* resolved; one whose 200 response has a non-empty body that was streamed
\* to the end is resolved.
C11_EmptyBodyRejectsNonEmptyResolves ==
  \A h \in Hops : FullyStreamed(h) =>
    /\ hop[h].status = 200
    /\ IF hop[h].bodyLen = 0
       THEN /\ hop[h].promise = "rejected"
            /\ hop[h].reason = OtherError("EmptyDownload")
       ELSE /\ hop[h].promise = "resolved"
            /\ hop[h].written = Body(h, hop[h].bodyLen)

C11_Witness ==
  \E h \in Hops :
    /\ FullyStreamed(h)
    /\ hop[h].bodyLen = 0
    /\ hop[h].reason = OtherError("EmptyDownload")

\* hop h received a 200 response at the end of a chain of redirects
Final200(h) ==
  /\ hop[h].status = 200
  /\ hop[h].state \in {"piping", "finished", "failed"}
  /\ \A j \in Hops : j < h => hop[j].state = "redirected"

\* every response received so far was a redirect that was followed
OnlyRedirects ==
  /\ hop[1].state # "idle"
  /\ \A h \in Hops : hop[h].state \in {"idle", "requested", "redirected"}

C13_ExistingFileRemovedBeforeWrite ==
  \A h \in Hops :
    /\ hop[h].stream = "open" => dest = HopFile(h)
    /\ hop[h].written # <<>> => dest.kind # "stale"
    /\ (FullyStreamed(h) /\ hop[h].promise = "resolved") =>
         /\ dest = HopFile(h)
         /\ Content(dest, hop) = Body(h, hop[h].bodyLen)
         /\ \A i \in 1..Len(Content(dest, hop)) : Content(dest, hop)[i] = h

C13_Witness ==
  /\ hop[1].found = "stale"
  /\ \E h \in Hops :
       /\ h > 1
       /\ hop[h].found = "hop"
       /\ FullyStreamed(h)
       /\ hop[h].promise = "resolved"
       /\ Content(dest, hop) = Body(h, MaxBody)

(***************************************************************************)
(* Properties of the voice management commands                             *)
(***************************************************************************)
\* the step in which removeVoice handles the answer of its quick pick
RemoveVoiceAnswered == rm.pc = "pick" /\ rm'.pc = "done"

\* C14: a removeVoice that removed the voice named by the persisted setting
\* sets the setting to the built-in default identifier; one that removed any
\* other voice, or whose pick was dismissed, leaves the setting unchanged.
C14_RemoveSelectedResetsToDefault ==
  [][RemoveVoiceAnswered =>
       IF rm'.result = "removed" /\ rm'.voice = config
       THEN config' = "en_US-hfc_female-medium"
       ELSE rm'.result \in {"removed", "dismissed"} => config' = config]_vars

C14_Witness ==
  /\ rm.result = "removed"
  /\ rm.voice = OtherVoice
  /\ rm.wasSelected
  /\ config = DefaultVoice

\* C15: removeVoice deletes the model file and the config file of the chosen
\* voice when they are present, reports no error for a file that is absent,
\* and touches the files of no other voice; it reports an error only when a
\* file that is present could not be deleted.
C15_RemoveDeletesChosenFilesOnly ==
  [][RemoveVoiceAnswered =>
       LET v == rm'.voice IN
         /\ models \ models' \subseteq {v} /\ models' \subseteq models
         /\ configs \ configs' \subseteq {v} /\ configs' \subseteq configs
         /\ rm'.result = "dismissed" => models' = models /\ configs' = configs
         /\ rm'.result = "removed" =>
              v \notin models' /\ v \notin configs' /\ rm'.errors = 0
         /\ rm'.result = "failed" =>
              (v \in models' \/ v \in configs') /\ rm'.errors = 1
         /\ (v # Null /\ v \notin models /\ v \notin configs) =>
              rm'.result = "removed"]_vars

C15_Witness ==
  /\ rm.result = "removed"
  /\ rm.hadModel
  /\ ~rm.hadConfig
  /\ rm.errors = 0
  /\ rm.voice \notin models
  /\ models # {}

(***************************************************************************)
(* Properties of the voice setting                                         *)
(***************************************************************************)
\* the step in which call c runs its checks, after the delay
ChecksRun(c) == call[c].phase = "delay" /\ call'[c].phase # "delay"

DownloadVoiceStarted == dv.pc \in {"idle", "done"} /\ dv'.pc # "idle" /\ dv' # dv

\* C17: when voices.json is missing or is not valid JSON, downloadVoice ends
\* with the catalog-unavailable error as its one message, having shown no
\* pick, issued no request, written no file and left the setting as it was.
C17_CatalogUnavailableFailsFirst ==
  [][(catalog # "ok" /\ DownloadVoiceStarted) =>
       /\ dv'.pc = "done"
       /\ dv'.result = "failed"
       /\ dv'.error = "CatalogUnavailable"
       /\ dv'.errors = 1
       /\ dv'.picks = 0
       /\ dv'.requests = 0
       /\ UNCHANGED <<models, configs, config, dest, hop>>]_vars

C17_Witness ==
  /\ catalog = "malformed"
  /\ dv.pc = "done"
  /\ dv.error = "CatalogUnavailable"
  /\ dv.errors = 1

(***************************************************************************)
(* Properties of the catalog parser                                        *)
(***************************************************************************)
\* the entries of a mapping: language key, voice, quality and the two URLs
Entries(obj) ==
  UNION {UNION {{<<l, v, q, obj[l][v][q].model, obj[l][v][q].config>> :
                   q \in DOMAIN obj[l][v]} : v \in DOMAIN obj[l]} : l \in DOMAIN obj}

\* the loop has handled every line of the document
ParseDone == lineNo = Len(lines)

\* the greatest member of S below j, or 0
LastBefore(S, j) ==
  LET below == {i \in S : i < j}
  IN IF below = {} THEN 0 ELSE CHOOSE i \in below : \A k \in below : k <= i

\* the shapes of the lines, by the first test of the loop that takes them
LanguageLines == {j \in 1..Len(lines) : ~IsSkipped(lines[j]) /\ MatchLanguage(lines[j]).ok}
VoiceLines ==
  {j \in 1..Len(lines) : /\ ~IsSkipped(lines[j]) /\ j \notin LanguageLines
                         /\ MatchVoice(lines[j]) # Null}
QualityLines ==
  {j \in 1..Len(lines) : /\ ~IsSkipped(lines[j]) /\ j \notin LanguageLines
                         /\ j \notin VoiceLines /\ MatchQuality(lines[j]).ok}

KeyOfLine(j) == LanguageKey(MatchLanguage(lines[j]))
\* the language line and the voice line a line j is read under, or 0
LanguageOf(j) == LastBefore(LanguageLines, j)
VoiceOf(j) == LastBefore(VoiceLines, j)

\* the quality line q is stored: a language line precedes it and a voice line
\* lies between that language line and q
Stored(q) == LanguageOf(q) # 0 /\ VoiceOf(q) > LanguageOf(q)

\* the entry of q is reset by a line in q+1..n: a language line with the same
\* key, or a voice line of the same name under the same language
ResetAfter(q, n) ==
  \/ \E k \in LanguageLines : q < k /\ k <= n /\ KeyOfLine(k) = KeyOfLine(LanguageOf(q))
  \/ \E k \in VoiceLines :
       /\ q < k /\ k <= n
       /\ MatchVoice(lines[k]) = MatchVoice(lines[VoiceOf(q)])
       /\ LanguageOf(k) # 0
       /\ KeyOfLine(LanguageOf(k)) = KeyOfLine(LanguageOf(q))

EntryOfLine(q) ==
  LET m == MatchQuality(lines[q])
  IN <<KeyOfLine(LanguageOf(q)), MatchVoice(lines[VoiceOf(q)]), m.quality, m.model, m.config>>

\* the entries of the mapping after n lines
ExpectedEntries(n) ==
  {EntryOfLine(q) : q \in {j \in QualityLines : j <= n /\ Stored(j) /\ ~ResetAfter(j, n)}}

\* the language keys of the mapping after n lines
ExpectedLanguages(n) == {KeyOfLine(j) : j \in {k \in LanguageLines : k <= n}}

\* the voice names under the language key L after n lines
ExpectedVoices(n, L) ==
  {MatchVoice(lines[j]) :
     j \in {k \in VoiceLines :
              /\ k <= n /\ LanguageOf(k) # 0 /\ KeyOfLine(LanguageOf(k)) = L
              /\ ~\E m \in LanguageLines : k < m /\ m <= n /\ KeyOfLine(m) = L}}

\* the claim's reading of a document: a language line is a line of the shape
\* "* Name (code)", keyed as written; a quality line is stored under the most
\* recent voice line and the most recent language line before it
ClaimedLanguageLines ==
  {j \in 1..Len(lines) : ~IsSkipped(lines[j]) /\ MatchLanguageNoBackticks(lines[j]).ok}
ClaimedEntries ==
  {LET l == LastBefore(ClaimedLanguageLines, q)
       m == MatchQuality(lines[q])
   IN <<LanguageKey(MatchLanguageNoBackticks(lines[l])), MatchVoice(lines[VoiceOf(q)]),
        m.quality, m.model, m.config>> :
     q \in {j \in QualityLines : LastBefore(ClaimedLanguageLines, j) # 0 /\ VoiceOf(j) # 0}}

\* the mapping of the example
ExampleMapping ==
  "English (en_US)" :> ("amy" :> ("medium" :> [model |-> "URL1", config |-> "URL2"]))

C19_VoiceIdInjective ==
  picked.voiceId # Null =>
    /\ picked.voiceId =
         LanguageCode(picked.language) \o "-" \o picked.voice \o "-" \o picked.size
    /\ \A l \in IdLabels, v \in IdVoices, s \in IdSizes :
         <<LanguageCode(l), v, s>> #
             <<LanguageCode(picked.language), picked.voice, picked.size>>
           => LanguageCode(l) \o "-" \o v \o "-" \o s # picked.voiceId

C19_Witness ==
  /\ picked.language = "Dutch (a-b)"
  /\ picked.voice = "bc"
  /\ picked.voiceId = "a-b-bc-cd"

(***************************************************************************)
(* Properties of the platform table                                        *)
(***************************************************************************)
\* the directory getPiperPath uses: an architecture without a directory of its
\* own is served by the x64 directory of its operating system
FallbackDirectory(p, a) ==
  CASE p = "win32"  -> "piper/windows_amd64"
    [] p = "darwin" -> IF a = "arm64" THEN "piper/macos_aarch64" ELSE "piper/macos_x64"
    [] p = "linux"  -> IF a = "arm64" THEN "piper/linux_aarch64"
                       ELSE IF a = "arm" THEN "piper/linux_armv7l"
                       ELSE "piper/linux_x86_64"
    [] OTHER        -> "unsupported"

\* the directory named for exactly the pair (p, a), if there is one
ExactDirectory(p, a) ==
  CASE p = "win32" /\ a = "x64"    -> "piper/windows_amd64"
    [] p = "darwin" /\ a = "arm64" -> "piper/macos_aarch64"
    [] p = "darwin" /\ a = "x64"   -> "piper/macos_x64"
    [] p = "linux" /\ a = "arm64"  -> "piper/linux_aarch64"
    [] p = "linux" /\ a = "arm"    -> "piper/linux_armv7l"
    [] p = "linux" /\ a = "x64"    -> "piper/linux_x86_64"
    [] OTHER                       -> "unsupported"

\* C20 as stated: resolution returns the executable of the directory named
\* for exactly the pair (operating system, architecture) or fails with the
\* unsupported-platform error, and a readText that fails so spawns nothing.
C20_ExactDirectoryOrUnsupported ==
  \A c \in Calls : Resumed(c) =>
    /\ call[c].piperDir = ExactDirectory(platform, arch)
    /\ call[c].piperDir = "unsupported" =>
         /\ call[c].promise = "rejected"
         /\ call[c].reason = "UnsupportedPlatform"
         /\ proc[c] = NoProcs

\* C20 amended: on win32, darwin and linux resolution returns the executable
\* of the directory of that operating system and architecture, where every
\* architecture without a directory of its own is served by the x64 directory
\* of the operating system; on every other operating system it fails with the
\* unsupported-platform error, and the readText is rejected with that error
\* and spawns no process.
C20_DirectoryOrUnsupported ==
  \A c \in Calls : Resumed(c) =>
    /\ call[c].piperDir = FallbackDirectory(platform, arch)
    /\ IF platform \in {"win32", "darwin", "linux"}
       THEN call[c].phase = "spawned" /\ call[c].piperDir # "unsupported"
       ELSE /\ call[c].promise = "rejected"
            /\ call[c].reason = "UnsupportedPlatform"
            /\ proc[c] = NoProcs
            /\ call[c].pipe = NoPipeline

C20_Witness ==
  \E c \in Calls :
    /\ Resumed(c)
    /\ platform = "linux" /\ arch = "ia32"
    /\ call[c].piperDir = "piper/linux_x86_64"
    /\ call[c].phase = "spawned"

(***************************************************************************)
(* Properties of the playback command                                      *)
(***************************************************************************)
\* the argument list holds the option flag followed by the value
HasOption(args, flag, value) ==
  \E i \in 1..(Len(args) - 1) : args[i] = flag /\ args[i + 1] = value
HasArgument(args, a) == \E i \in 1..Len(args) : args[i] = a

\* the argument list states the sample rate, the sample encoding, the channel
\* count and standard input as the source
StatesRate(args) == HasOption(args, "-r", "22050")
StatesEncoding(args) ==
  \/ HasOption(args, "-f", "S16_LE")
  \/ /\ HasOption(args, "-b", "16") /\ HasOption(args, "-e", "signed")
     /\ HasArgument(args, "-L")
StatesMono(args) == HasOption(args, "-c", "1")
ReadsStdin(args) == HasArgument(args, "-")

\* C21: on win32, darwin and linux the argument list of the playback process
\* of every session states 22050 Hz, 16-bit signed little-endian samples, one
\* channel, and standard input as the source.
C21_PlaybackArgsStateFormat ==
  \A c \in Calls : call[c].phase = "spawned" =>
    LET args == call[c].playback.args IN
      /\ StatesRate(args)
      /\ StatesEncoding(args)
      /\ StatesMono(args)
      /\ ReadsStdin(args)

(***************************************************************************)
(* Properties of error reporting                                           *)
(***************************************************************************)
\* an operation met an internal error
ReadTextFailed(c) == call[c].reason # "none"
SelectVoiceFailed == sel.pc = "done" /\ sel.result = "rejected"
RemoveVoiceFailed == rm.pc = "done" /\ rm.result \in {"failed", "rejected"}
DownloadVoiceFailed == dv.pc = "done" /\ dv.result = "failed"

\* C22: a public operation that met an internal error has shown exactly one
\* error message and has not passed the error to its caller as a rejection.
C22_ErrorsCaughtAndShownOnce ==
  /\ \A c \in Calls : ReadTextFailed(c) =>
        call[c].promise # "rejected" /\ call[c].errors = 1
  /\ SelectVoiceFailed => sel.errors = 1
  /\ RemoveVoiceFailed => rm.errors = 1 /\ rm.result # "rejected"
  /\ DownloadVoiceFailed => dv.errors = 1

(***************************************************************************)
(* Properties of the process handles                                       *)
(***************************************************************************)
\* the step delivers the 'close' event of the synthesis / playback process of c
PiperClosed(c) == ~Exited(proc[c].piper) /\ Exited(proc'[c].piper)
PlayerClosed(c) == ~Exited(proc[c].player) /\ Exited(proc'[c].player)

LinksUpTo(n) == [k \in 1..n |-> SymlinkMappings[k].link]

\* C24: fixSymlinks attempts the entries of the list in list order and goes on
\* to the next entry after a missing target and after a failure of unlink or
\* symlink, so that it ends having attempted every entry; its promise is never
\* rejected; started on a platform other than linux, or without the binary
\* directory, it ends at once and changes no entry.
C24_EveryEntryAttempted ==
  [][/\ fix'.promise # "rejected"
     /\ fix'.pc = "loop" => fix'.attempted = LinksUpTo(fix'.i - 1)
     /\ (fix'.pc = "done" /\ platform = "linux" /\ BinDirExists) =>
          /\ fix'.attempted = LinksUpTo(Len(SymlinkMappings))
          /\ fix'.promise = "resolved"
     /\ (fix.pc = "idle" /\ fix'.pc # "idle" /\ (platform # "linux" \/ ~BinDirExists)) =>
          /\ fix'.pc = "done" /\ fix'.promise = "resolved"
          /\ fix'.attempted = <<>>
          /\ binDir' = binDir
     /\ (fix.pc = "done" \/ fix.pc = "idle") => binDir' = binDir]_vars

C24_Witness ==
  /\ fix.pc = "done"
  /\ fix.promise = "resolved"
  /\ fix.attempted = LinksUpTo(5)
  /\ fix.warnings >= 1
  /\ fix.failures >= 2
  /\ binDir.files["libpiper_phonemize.so"] = "libpiper_phonemize.so.1"

\* C25: every process that is alive and was sent no kill signal is the one its
\* module-level handle refers to: no exit event of another session has cleared
\* the handle and no later spawn has overwritten it.
C25_AliveProcessTracked ==
  \A c \in Calls :
    /\ Unstopped(proc[c].piper) => piperProcess = c
    /\ Unstopped(proc[c].player) => playerProcess = c

\* the step in which call c leaves its delay and spawns its two processes
SpawnStep(c) == call[c].phase = "delay" /\ call'[c].phase = "spawned"

\* C26: from the state a stopPlayback call leaves, where no readText has been
\* called since, no step spawns a process: a readText that was waiting in its
\* delay when the stop was called does not go on to start a session.
C26_NoSpawnAfterStop ==
  [][lastOp = "stopPlayback" => \A c \in Calls : ~SpawnStep(c)]_vars

\* the step in which the promise of call c is rejected by an event of one of
\* its processes
RejectedByProcess(c) ==
  /\ call[c].promise = "pending"
  /\ call'[c].promise = "rejected"
  /\ call'[c].reason \in {"ProcessSpawnError", "ProcessExitError"}

\* C27: at the moment the promise of a call is rejected by a spawn error or a
\* failure exit of one of its processes, no process of that session is running
\* without a kill signal: the other process has exited or has been signalled.
C27_FailureStopsOtherProcess ==
  [][\A c \in Calls : RejectedByProcess(c) =>
       ~Unstopped(proc'[c].piper) /\ ~Unstopped(proc'[c].player)]_vars

(***************************************************************************)
(* Properties of downloadVoice                                             *)
(***************************************************************************)
\* a step of the downloadVoice command
DownloadVoiceStep == dv.pc \notin {"idle", "done"} /\ dv' # dv

\* C28: a step of downloadVoice changes the persisted setting only when both
\* downloads have resolved and both files are on disk, and then to the
\* identifier of the downloaded voice; a downloadVoice that ends by a dismissed
\* pick or with an error leaves the setting as it was.
C28_SelectionSetOnlyAfterBothFiles ==
  [][DownloadVoiceStep =>
       /\ config' # config =>
            /\ dv.pc = "delay"
            /\ dv.requests = 2
            /\ dv.voiceId \in models /\ dv.voiceId \in configs
            /\ config' = dv.voiceId
            /\ dv'.result = "downloaded"
       /\ dv'.result = "downloaded" => config' = dv.voiceId
       /\ dv'.result \in {"dismissed", "failed"} => config' = config]_vars

C28_Witness ==
  /\ dv.result = "downloaded"
  /\ dv.voiceId = "en_GB-alan-low"
  /\ config = "en_GB-alan-low"
  /\ dv.requests = 2
  /\ dv.voiceId \in models /\ dv.voiceId \in configs

\* the step in which a downloadVoice that had built its identifier ends
DownloadVoiceEnded == dv.pc \notin {"idle", "done"} /\ dv'.pc = "done" /\ dv'.voiceId # Null

\* C29: when a downloadVoice of a voice that had neither file ends, with or
\* without an error, the model file of the voice is on disk if and only if its
\* config file is.
C29_ModelIffConfigAfterDownload ==
  [][(DownloadVoiceEnded /\ ~dv'.hadFiles) =>
       (dv'.voiceId \in models' <=> dv'.voiceId \in configs')]_vars

\* C30: when the commands selectVoice, downloadVoice and removeVoice are run
\* one after the other from a state in which the model file of the voice in
\* use is on disk, then after each of them the model file of the voice the
\* next readText uses (the setting, or the built-in default when it is unset)
\* is on disk.
C30_VoiceInUseHasItsFile ==
  NoCommandRunning => GetVoice(config) \in models

====
